---- MODULE Spec2Model ----
(***************************************************************************)
(* A model of pages/api/packers-agent.ts: the in-memory rate limiter, the  *)
(* input validator, the JSON extractor, the coercer and the endpoint       *)
(* handler that sequences them around one upstream completion call.        *)
(*                                                                         *)
(* Time is the value Date.now() returns, in milliseconds.  Texts are       *)
(* sequences of lexical tokens.  JavaScript values are tagged records      *)
(* [t |-> <typeof>, ...], so that values of different types can be         *)
(* compared.                                                               *)
(***************************************************************************)
EXTENDS Integers, Sequences, FiniteSets, TLC

(***************************************************************************)
(* Program constants.                                                      *)
(***************************************************************************)
RATE_LIMIT_PER_MINUTE == 10
RATE_LIMIT_PER_HOUR == 100
MINUTE_MS == 60 * 1000
HOUR_MS == 60 * 60 * 1000
MAX_MESSAGE_LENGTH == 500
MAX_REQUEST_SIZE == 10 * 1024

validModes == <<"Balanced", "Zen", "Dramatic", "Angry", "Copium", "Analyst", "Petty">>

requiredKeys ==
  <<"emotional_read", "validation", "tactical_breakdown", "reframing",
    "humor", "fan_ritual", "closing">>

(***************************************************************************)
(* Bounds of the model.                                                    *)
(***************************************************************************)
\* A client's request is taken while both of its counters are below this.
MaxCalls == 12
\* The same, in the specification that walks through a whole hourly window.
MaxHourCalls == 102
\* The minute windows the hourly specification can step through.
MaxWindows == 10
\* The longest upstream reply, in tokens.
MaxRawLen == 5
\* The requests taken by the specification that enumerates the replies.
MaxReplyCalls == 1
\* A second client's request is taken while its counters are below this.
MaxOtherCalls == 2

(***************************************************************************)
(* JavaScript values.                                                      *)
(***************************************************************************)
Undefined == [t |-> "undefined"]
Null == [t |-> "null"]
\* A string with its content.
Str(s) == [t |-> "string", s |-> s]
\* A string of which only the length matters (a user's message).
StrOfLen(n) == [t |-> "string", length |-> n]
\* A string as its characters (a numeric header).
Chars(c) == [t |-> "string", chars |-> c]
\* A string as its lexical tokens (a model reply).
Text(tokens) == [t |-> "string", tokens |-> tokens]
Num(n) == [t |-> "number", n |-> n]
Bool(b) == [t |-> "boolean", b |-> b]
Obj(o) == [t |-> "object", o |-> o]

\* An object with no property: a function with the empty domain.
EmptyObject == [k \in {} |-> Undefined]

\* Math.ceil(a / b) for an integer a and a positive integer b.
Ceil(a, b) == -((-a) \div b)

SeqToSet(s) == {s[i] : i \in 1..Len(s)}

(***************************************************************************)
(* The rate limiter.  The store is the Map: a function whose domain is the *)
(* set of keys present.                                                    *)
(***************************************************************************)
RateLimitEntry(c, r, hc, hr) ==
  [count |-> c, resetAt |-> r, hourlyCount |-> hc, hourlyResetAt |-> hr]

\* A sweep that deletes the entries whose minute window has expired.
Sweep_ByMinute(store, now) ==
  [k \in {x \in DOMAIN store : ~(store[x].resetAt < now)} |-> store[k]]

\* for (const [key, val] of rateLimitStore.entries())
\*   if (val.hourlyResetAt < now) rateLimitStore.delete(key)
Sweep(store, now) ==
  [k \in {x \in DOMAIN store : ~(store[x].hourlyResetAt < now)} |-> store[k]]

\* A minute window that slides: every call moves its reset time.
MinuteStep_Sliding(entry, now) ==
  IF entry.resetAt < now
    THEN [entry EXCEPT !.count = 1, !.resetAt = now + MINUTE_MS]
    ELSE [entry EXCEPT !.count = entry.count + 1, !.resetAt = now + MINUTE_MS]

\* if (entry.resetAt < now) { count = 1; resetAt = now + MINUTE_MS } else count++
MinuteStep(entry, now) ==
  IF entry.resetAt < now
    THEN [entry EXCEPT !.count = 1, !.resetAt = now + MINUTE_MS]
    ELSE [entry EXCEPT !.count = entry.count + 1]

\* if (entry.hourlyResetAt < now) { hourlyCount = 1; ... } else hourlyCount++
HourStep(entry, now) ==
  IF entry.hourlyResetAt < now
    THEN [entry EXCEPT !.hourlyCount = 1, !.hourlyResetAt = now + HOUR_MS]
    ELSE [entry EXCEPT !.hourlyCount = entry.hourlyCount + 1]

\* Limits that deny the request that reaches the limit, not the one after.
Enforce_AtLimit(entry, now) ==
  IF entry.count >= RATE_LIMIT_PER_MINUTE
    THEN [allowed |-> FALSE, retryAfter |-> Ceil(entry.resetAt - now, 1000)]
  ELSE IF entry.hourlyCount >= RATE_LIMIT_PER_HOUR
    THEN [allowed |-> FALSE, retryAfter |-> Ceil(entry.hourlyResetAt - now, 1000)]
  ELSE [allowed |-> TRUE]

\* An hourly denial that reports the minute window.
Enforce_MinuteRetry(entry, now) ==
  IF \/ entry.count > RATE_LIMIT_PER_MINUTE
     \/ entry.hourlyCount > RATE_LIMIT_PER_HOUR
    THEN [allowed |-> FALSE, retryAfter |-> Ceil(entry.resetAt - now, 1000)]
    ELSE [allowed |-> TRUE]

\* Limits enforced with the hourly limit first.
Enforce_HourFirst(entry, now) ==
  IF entry.hourlyCount > RATE_LIMIT_PER_HOUR
    THEN [allowed |-> FALSE, retryAfter |-> Ceil(entry.hourlyResetAt - now, 1000)]
  ELSE IF entry.count > RATE_LIMIT_PER_MINUTE
    THEN [allowed |-> FALSE, retryAfter |-> Ceil(entry.resetAt - now, 1000)]
  ELSE [allowed |-> TRUE]

\* The limits as enforced on the updated entry: the minute limit first.
Enforce(entry, now) ==
  IF entry.count > RATE_LIMIT_PER_MINUTE
    THEN [allowed |-> FALSE, retryAfter |-> Ceil(entry.resetAt - now, 1000)]
  ELSE IF entry.hourlyCount > RATE_LIMIT_PER_HOUR
    THEN [allowed |-> FALSE, retryAfter |-> Ceil(entry.hourlyResetAt - now, 1000)]
  ELSE [allowed |-> TRUE]

\* checkRateLimit(ip) at time now; random is whether Math.random() < 0.001.
\* The result is the returned object (ret), the store after the call, and
\* the entry object the call worked on (entry).  The entry is mutated in
\* place: when the sweep has deleted it from the map, the map does not get
\* it back.
checkRateLimit(store, ip, now, random) ==
  IF ip \notin DOMAIN store
    THEN LET entry == RateLimitEntry(1, now + MINUTE_MS, 1, now + HOUR_MS)
         IN  [ret |-> [allowed |-> TRUE],
              store |-> (ip :> entry) @@ store,
              entry |-> entry]
    ELSE LET swept == IF random THEN Sweep(store, now) ELSE store
             entry == HourStep(MinuteStep(store[ip], now), now)
         IN  [ret |-> Enforce(entry, now),
              store |-> IF ip \in DOMAIN swept
                          THEN [swept EXCEPT ![ip] = entry]
                          ELSE swept,
              entry |-> entry]

(***************************************************************************)
(* Input validation.                                                       *)
(***************************************************************************)
\* !v for the values a request body can hold.
Falsy(v) ==
  \/ v.t \in {"undefined", "null"}
  \/ v.t = "string" /\ v.length = 0
  \/ v.t = "number" /\ v.n = 0
  \/ v.t = "boolean" /\ ~v.b

\* validModes.includes(mode): strict equality with one of the elements.
Includes(list, v) == v.t = "string" /\ v.s \in SeqToSet(list)

\* A validator whose length limit is exclusive.
validateInput_Below(message, mode) ==
  IF Falsy(message) \/ message.t # "string"
    THEN [valid |-> FALSE,
          error |-> <<"Request must include message string in body">>]
  ELSE IF message.length >= MAX_MESSAGE_LENGTH
    THEN [valid |-> FALSE,
          error |-> <<"Message exceeds maximum length of ",
                      ToString(MAX_MESSAGE_LENGTH), " characters">>]
  ELSE IF mode # Undefined /\ mode # Null /\ ~Includes(validModes, mode)
    THEN [valid |-> FALSE,
          error |-> <<"Invalid mode. Must be one of: ">> \o validModes]
  ELSE [valid |-> TRUE]

validateInput(message, mode) ==
  IF Falsy(message) \/ message.t # "string"
    THEN [valid |-> FALSE,
          error |-> <<"Request must include message string in body">>]
  ELSE IF message.length = 0
    THEN [valid |-> FALSE, error |-> <<"Message cannot be empty">>]
  ELSE IF message.length > MAX_MESSAGE_LENGTH
    THEN [valid |-> FALSE,
          error |-> <<"Message exceeds maximum length of ",
                      ToString(MAX_MESSAGE_LENGTH), " characters">>]
  ELSE IF mode # Undefined /\ mode # Null /\ ~Includes(validModes, mode)
    THEN [valid |-> FALSE,
          error |-> <<"Invalid mode. Must be one of: ">> \o validModes]
  ELSE [valid |-> TRUE]

(***************************************************************************)
(* The declared body size: parseInt of the content-length header.          *)
(***************************************************************************)
Digits == <<"0", "1", "2", "3", "4", "5", "6", "7", "8", "9">>

IsDigit(c) == c \in SeqToSet(Digits)

DigitValue(c) == (CHOOSE i \in 1..Len(Digits) : Digits[i] = c) - 1

\* The longest prefix of chars made of digits, as a number (0 for none).
RECURSIVE DigitsValue(_, _)
DigitsValue(chars, acc) ==
  IF chars = <<>> \/ ~IsDigit(Head(chars))
    THEN acc
    ELSE DigitsValue(Tail(chars), 10 * acc + DigitValue(Head(chars)))

\* parseInt(s) for a string without sign or leading blanks: the number its
\* leading digits spell, NaN when it starts with no digit.
parseInt(chars) ==
  IF chars = <<>> \/ ~IsDigit(Head(chars))
    THEN [nan |-> TRUE]
    ELSE [nan |-> FALSE, n |-> DigitsValue(chars, 0)]

\* contentLength && parseInt(contentLength) > MAX_REQUEST_SIZE
TooLarge(contentLength) ==
  /\ contentLength.t = "string"
  /\ contentLength.chars # <<>>
  /\ LET size == parseInt(contentLength.chars)
     IN  ~size.nan /\ size.n > MAX_REQUEST_SIZE

(***************************************************************************)
(* The client identifier.  An x-forwarded-for string is modelled by the    *)
(* list of its comma-separated parts, each already trimmed.                *)
(***************************************************************************)
getClientIP(req) ==
  IF req.forwarded.t = "string" THEN req.forwarded.parts[1]
  ELSE IF req.realIP.t = "string" THEN req.realIP.s
  ELSE IF req.remoteAddress.t = "string" /\ req.remoteAddress.s # ""
    THEN req.remoteAddress.s
  ELSE "unknown"

(***************************************************************************)
(* Extraction of the JSON object from the model's reply.  A reply is a     *)
(* sequence of tokens: the braces, the comma, a run of prose, a member     *)
(* with a scalar value ("key": value) and the start of a member whose      *)
(* value is an object ("key":).                                            *)
(***************************************************************************)
LBrace == [c |-> "{"]
RBrace == [c |-> "}"]
Comma == [c |-> ","]
Prose == [c |-> "prose"]
Member(k, v) == [c |-> "member", k |-> k, v |-> v]
Key(k) == [c |-> "key", k |-> k]

\* text.indexOf(c): the first position (from 0) of c, -1 when there is none.
IndexOf(text, c) ==
  LET at == {i \in 1..Len(text) : text[i] = c}
  IN  IF at = {} THEN -1 ELSE (CHOOSE i \in at : \A j \in at : i <= j) - 1

\* text.lastIndexOf(c)
LastIndexOf(text, c) ==
  LET at == {i \in 1..Len(text) : text[i] = c}
  IN  IF at = {} THEN -1 ELSE (CHOOSE i \in at : \A j \in at : i >= j) - 1

\* text.slice(from, to), positions from 0, to exclusive.
Slice(text, from, to) == SubSeq(text, from + 1, to)

ParseFailure == [ok |-> FALSE]

\* JSON's object grammar over the tokens, from position i (from 1):
\*   object  ::= { } | { members }
\*   members ::= member | member , members
\*   member  ::= "key": scalar | "key": object
\* The result is the object read and the position after it.  A key given
\* twice keeps its last value.
RECURSIVE ParseObject(_, _)
RECURSIVE ParseMembers(_, _, _)
ParseObject(text, i) ==
  IF i > Len(text) \/ text[i] # LBrace THEN ParseFailure
  ELSE IF i + 1 <= Len(text) /\ text[i + 1] = RBrace
    THEN [ok |-> TRUE, o |-> EmptyObject, next |-> i + 2]
  ELSE ParseMembers(text, i + 1, EmptyObject)

ParseMembers(text, i, acc) ==
  LET After(o, j) ==
        IF j > Len(text) THEN ParseFailure
        ELSE IF text[j] = RBrace THEN [ok |-> TRUE, o |-> o, next |-> j + 1]
        ELSE IF text[j] = Comma THEN ParseMembers(text, j + 1, o)
        ELSE ParseFailure
  IN  IF i > Len(text) THEN ParseFailure
      ELSE IF text[i].c = "member"
        THEN After((text[i].k :> text[i].v) @@ acc, i + 1)
      ELSE IF text[i].c = "key"
        THEN LET inner == ParseObject(text, i + 1)
             IN  IF inner.ok
                   THEN After((text[i].k :> Obj(inner.o)) @@ acc, inner.next)
                   ELSE ParseFailure
      ELSE ParseFailure

\* JSON.parse(candidate): the whole candidate must be one object.
JSONparse(candidate) ==
  LET r == ParseObject(candidate, 1)
  IN  IF r.ok /\ r.next = Len(candidate) + 1
        THEN [ok |-> TRUE, value |-> Obj(r.o)]
        ELSE ParseFailure

extractFirstJsonObject(text) ==
  LET firstBrace == IndexOf(text, LBrace)
      lastBrace == LastIndexOf(text, RBrace)
  IN  IF firstBrace = -1 \/ lastBrace = -1 \/ lastBrace <= firstBrace
        THEN Null
        ELSE LET parsed == JSONparse(Slice(text, firstBrace, lastBrace + 1))
             IN  IF parsed.ok THEN parsed.value ELSE Null

(***************************************************************************)
(* Coercion and the schema check.                                          *)
(***************************************************************************)
\* A fallback with every field empty.
Fallback_AllEmpty == Obj([k \in SeqToSet(requiredKeys) |-> Str("")])

\* The fallback used when no object was extracted.
Fallback ==
  Obj([k \in SeqToSet(requiredKeys) |->
         IF k = "emotional_read" THEN Str("frustration") ELSE Str("")])

\* parsed[k]
Get(parsed, k) == IF k \in DOMAIN parsed.o THEN parsed.o[k] ELSE Undefined

\* A coercion that turns a value that is no string into one, String(v).
Coerce_Stringify(parsed) ==
  [k \in SeqToSet(requiredKeys) |->
     IF Get(parsed, k).t = "string" THEN Get(parsed, k)
     ELSE IF Get(parsed, k) = Undefined THEN Str("")
     ELSE Str(Get(parsed, k).t)]

\* coerced[k] = typeof parsed[k] === "string" ? parsed[k] : ""
Coerce(parsed) ==
  [k \in SeqToSet(requiredKeys) |->
     IF Get(parsed, k).t = "string" THEN Get(parsed, k) ELSE Str("")]

\* validate(coerced) against OUTPUT_SCHEMA: the seven keys required, each a
\* string, no other key.
validate(o) ==
  /\ SeqToSet(requiredKeys) \subseteq DOMAIN o
  /\ DOMAIN o \subseteq SeqToSet(requiredKeys)
  /\ \A k \in DOMAIN o : o[k].t = "string"

(***************************************************************************)
(* The upstream call.  The outcome of fetch is a rejection (a transport    *)
(* failure), or a response with a status and a body: the body text of an   *)
(* error status, or the JSON of a success, of which the model keeps the    *)
(* two places a completion is read from.                                   *)
(***************************************************************************)
Rejected(message) == [kind |-> "rejected", message |-> message]
ErrorStatus(status, txt) ==
  [kind |-> "response", ok |-> FALSE, status |-> status, txt |-> txt]
Completion(content, text) ==
  [kind |-> "response", ok |-> TRUE, content |-> content, text |-> text]

\* a ?? b
Coalesce(a, b) == IF a = Undefined \/ a = Null THEN b ELSE a

\* callModel from the point where fetch has settled with outcome up: the
\* text it returns, or the message of the Error it throws.
callModelResume(up) ==
  IF up.kind = "rejected"
    THEN [threw |-> TRUE, message |-> up.message]
  ELSE IF ~up.ok
    THEN [threw |-> TRUE,
          message |-> <<"Model API error: ", ToString(up.status), " ", up.txt>>]
  ELSE [threw |-> FALSE,
        raw |-> Coalesce(Coalesce(up.content, up.text), Text(<<>>)).tokens]

(***************************************************************************)
(* The handler.  It runs without interruption up to the await of the       *)
(* upstream call (HandlerEntry) and again from the moment that call has    *)
(* settled (HandlerResume).                                                *)
(***************************************************************************)
NoHeaders == [h \in {} |-> ""]
NoCheck == [called |-> FALSE]
NoUpstream == [kind |-> "none"]

Response(status, headers, body) ==
  [status |-> status, headers |-> headers, body |-> body]

\* An answer given before any await: no upstream call was issued.
Stop(store, check, res) ==
  [done |-> TRUE, store |-> store, check |-> check, fetches |-> 0, res |-> res]

\* const clientIP = getClientIP(req); const rateLimitCheck = checkRateLimit(clientIP)
\* with what the call did: whether it created the entry, the entry it
\* computed, and whether the store holds that entry when it returns.
Checked(req, store, now, random) ==
  LET clientIP == getClientIP(req)
      rateLimitCheck == checkRateLimit(store, clientIP, now, random)
  IN  [store |-> rateLimitCheck.store,
       check |-> [called |-> TRUE, clientIP |-> clientIP,
                  fresh |-> clientIP \notin DOMAIN store,
                  ret |-> rateLimitCheck.ret, entry |-> rateLimitCheck.entry,
                  kept |-> /\ clientIP \in DOMAIN rateLimitCheck.store
                           /\ rateLimitCheck.store[clientIP] = rateLimitCheck.entry]]

\* res.setHeader("Retry-After", ...); return res.status(429).json(...)
RateLimited(ret) ==
  Response(429, [h \in {"Retry-After"} |-> ToString(ret.retryAfter)],
           [error |-> <<"Rate limit exceeded">>, retryAfter |-> ret.retryAfter])

\* const { message, mode } = req.body ?? {}; validateInput(message, mode)
InputValidation(req) ==
  LET body == IF req.body.t = "object" THEN req.body ELSE Obj(EmptyObject)
  IN  validateInput(Get(body, "message"), Get(body, "mode"))

\* The try block up to the await of fetch, for a request the rate limiter
\* has allowed (c is what Checked gave): the input validation, and callModel
\* up to fetch, which throws when the credential is missing.
Validated(req, c, key) ==
  IF ~InputValidation(req).valid
    THEN Stop(c.store, c.check,
              Response(400, NoHeaders, [error |-> InputValidation(req).error]))
  ELSE IF ~key
    THEN Stop(c.store, c.check,
              Response(500, NoHeaders,
                       [error |-> <<"Missing OPENAI_API_KEY in environment">>]))
  ELSE [done |-> FALSE, store |-> c.store, check |-> c.check, fetches |-> 1]

MethodNotAllowed == Response(405, NoHeaders, [error |-> <<"Method not allowed">>])
RequestTooLarge == Response(413, NoHeaders, [error |-> <<"Request too large">>])

\* A handler that looks at the declared size before the method.
HandlerEntry_SizeFirst(req, store, now, random, key) ==
  IF TooLarge(req.contentLength) THEN Stop(store, NoCheck, RequestTooLarge)
  ELSE IF req.method # "POST" THEN Stop(store, NoCheck, MethodNotAllowed)
  ELSE LET c == Checked(req, store, now, random)
       IN  IF ~c.check.ret.allowed
             THEN Stop(c.store, c.check, RateLimited(c.check.ret))
             ELSE Validated(req, c, key)

\* A handler that validates the input before it consults the rate limiter.
HandlerEntry_ValidateFirst(req, store, now, random, key) ==
  IF req.method # "POST" THEN Stop(store, NoCheck, MethodNotAllowed)
  ELSE IF TooLarge(req.contentLength) THEN Stop(store, NoCheck, RequestTooLarge)
  ELSE IF ~InputValidation(req).valid
    THEN Stop(store, NoCheck,
              Response(400, NoHeaders, [error |-> InputValidation(req).error]))
  ELSE LET c == Checked(req, store, now, random)
       IN  IF ~c.check.ret.allowed
             THEN Stop(c.store, c.check, RateLimited(c.check.ret))
             ELSE Validated(req, c, key)

\* A handler that consults the rate limiter before it looks at the method
\* and the declared size.
HandlerEntry_CountFirst(req, store, now, random, key) ==
  LET c == Checked(req, store, now, random)
  IN  IF req.method # "POST" THEN Stop(c.store, NoCheck, MethodNotAllowed)
      ELSE IF TooLarge(req.contentLength) THEN Stop(c.store, NoCheck, RequestTooLarge)
      ELSE IF ~c.check.ret.allowed
        THEN Stop(c.store, c.check, RateLimited(c.check.ret))
      ELSE Validated(req, c, key)

\* The handler from its start to its first await.  done says whether it has
\* answered; fetches counts the upstream calls it has issued.
HandlerEntry(req, store, now, random, key) ==
  IF req.method # "POST" THEN Stop(store, NoCheck, MethodNotAllowed)
  ELSE IF TooLarge(req.contentLength) THEN Stop(store, NoCheck, RequestTooLarge)
  ELSE LET c == Checked(req, store, now, random)
       IN  IF ~c.check.ret.allowed
             THEN Stop(c.store, c.check, RateLimited(c.check.ret))
             ELSE Validated(req, c, key)

\* What the handler does with the text callModel returned: extraction, the
\* fallback, coercion, the schema check.
Respond(fetches, raw) ==
  LET extracted == extractFirstJsonObject(raw)
      parsed == IF extracted = Null \/ extracted.t # "object"
                  THEN Fallback ELSE extracted
      coerced == Coerce(parsed)
  IN  IF ~validate(coerced)
        THEN [fetches |-> fetches, parsed |-> extracted,
              res |-> Response(500, NoHeaders,
                        [error |-> <<"Model produced output that failed schema validation">>,
                         details |-> <<"validate.errors">>,
                         output |-> coerced])]
        ELSE [fetches |-> fetches, parsed |-> extracted,
              res |-> Response(200, NoHeaders, coerced)]

\* catch (err): res.status(500).json({ error: err?.message ?? "server error" })
Caught(fetches, message) ==
  [fetches |-> fetches, parsed |-> Undefined,
   res |-> Response(500, NoHeaders, [error |-> message])]

\* A handler that, as an earlier revision did, calls the model a second time
\* when nothing could be extracted from its reply.
HandlerResume_Retry(h, up) ==
  LET called == callModelResume(up)
  IN  IF called.threw THEN Caught(h.fetches, called.message)
      ELSE IF extractFirstJsonObject(called.raw) = Null
        THEN Respond(h.fetches + 1, called.raw)
      ELSE Respond(h.fetches, called.raw)

\* The handler from the settling of the upstream call to its answer.
HandlerResume(h, up) ==
  LET called == callModelResume(up)
  IN  IF called.threw THEN Caught(h.fetches, called.message)
      ELSE Respond(h.fetches, called.raw)

(***************************************************************************)
(* The state.                                                              *)
(*   clock           what Date.now() returns                               *)
(*   rateLimitStore  the Map of the rate limiter                           *)
(*   handlers        the invocations of the handler, each idle or waiting  *)
(*                   for its upstream call                                 *)
(*   sent            the last answer sent, with the request it answers and *)
(*                   what the handler did for it                           *)
(*   seen            per client identifier, a record of the rate-limit     *)
(*                   checks made for it (history, read by no action)       *)
(*   call            the last call made of one function on its own, with   *)
(*                   its arguments and what it returned                    *)
(***************************************************************************)
VARIABLES clock, rateLimitStore, handlers, sent, seen, call

vars == <<clock, rateLimitStore, handlers, sent, seen, call>>

Slots == {"h1", "h2"}

ClientA == "203.0.113.7"
Proxy == "10.0.0.1"
Clients == {ClientA, "unknown"}

Idle == [pc |-> "idle"]
NothingSent == [status |-> 0]
NoCall == [fn |-> "none"]

\* What is recorded of the checks made for one client:
\*   calls, upTo      the calls since the one that created the entry, all made
\*                    no later than upTo, one minute after it (0: none)
\*   hcalls, hupTo    the same for the hour; spaced says that the minute count
\*                    stayed within its limit in all of them
\*   at, ret, entry   the time of the last check, what it returned and the
\*                    entry it computed; kept: the store held that entry when
\*                    the check returned
\*   win, okInWin     the minute window (its reset time) of the last check and
\*                    the checks that were allowed in it; hwin, okInHWin: the
\*                    same for the hourly window
Unseen ==
  [checked |-> FALSE, calls |-> 0, upTo |-> 0, hcalls |-> 0, hupTo |-> 0,
   spaced |-> TRUE, at |-> 0, ret |-> [allowed |-> TRUE],
   entry |-> RateLimitEntry(0, 0, 0, 0), kept |-> TRUE,
   win |-> 0, okInWin |-> 0, hwin |-> 0, okInHWin |-> 0]

Observe(h, now, check) ==
  LET ok == IF check.ret.allowed THEN 1 ELSE 0
      within == ~check.fresh /\ h.calls > 0 /\ now <= h.upTo
      hwithin == ~check.fresh /\ h.hcalls > 0 /\ now <= h.hupTo
  IN  [checked |-> TRUE,
       calls |-> IF check.fresh THEN 1 ELSE IF within THEN h.calls + 1 ELSE 0,
       upTo |-> IF check.fresh THEN now + MINUTE_MS ELSE h.upTo,
       hcalls |-> IF check.fresh THEN 1 ELSE IF hwithin THEN h.hcalls + 1 ELSE 0,
       hupTo |-> IF check.fresh THEN now + HOUR_MS ELSE h.hupTo,
       spaced |-> /\ check.entry.count <= RATE_LIMIT_PER_MINUTE
                  /\ (check.fresh \/ h.spaced),
       at |-> now, ret |-> check.ret, entry |-> check.entry, kept |-> check.kept,
       win |-> check.entry.resetAt,
       okInWin |-> IF h.checked /\ check.entry.resetAt = h.win
                     THEN h.okInWin + ok ELSE ok,
       hwin |-> check.entry.hourlyResetAt,
       okInHWin |-> IF h.checked /\ check.entry.hourlyResetAt = h.hwin
                      THEN h.okInHWin + ok ELSE ok]

Init ==
  /\ clock = 0
  /\ rateLimitStore = [ip \in {} |-> RateLimitEntry(0, 0, 0, 0)]
  /\ handlers = [r \in Slots |-> Idle]
  /\ sent = NothingSent
  /\ seen = [ip \in Clients |-> Unseen]
  /\ call = NoCall

\* Time passes: Date.now() never goes back.
Tick(t) ==
  /\ sent = NothingSent
  /\ t > clock
  /\ clock' = t
  /\ UNCHANGED <<rateLimitStore, handlers, sent, seen, call>>

\* An answer with the request it answers and what the handler did for it:
\* what checkRateLimit returned to it (NoCheck when it was not called), the
\* upstream calls it issued, how its call settled and what it extracted.
Answer(req, rateLimitCheck, fetches, up, parsed, res) ==
  [req |-> req, rateLimitCheck |-> rateLimitCheck, fetches |-> fetches,
   up |-> up, parsed |-> parsed, status |-> res.status,
   headers |-> res.headers, body |-> res.body]

\* A request arrives and the handler runs to its answer or to its await.
Start(r, req, random, key) ==
  /\ sent = NothingSent
  /\ handlers[r] = Idle
  /\ \E e \in {HandlerEntry(req, rateLimitStore, clock, random, key)} :
         /\ rateLimitStore' = e.store
         /\ seen' = IF e.check.called
                      THEN [seen EXCEPT ![e.check.clientIP] =
                              Observe(@, clock, e.check)]
                      ELSE seen
         /\ IF e.done
              THEN /\ sent' = Answer(req,
                                     IF e.check.called THEN e.check.ret ELSE NoCheck,
                                     e.fetches, NoUpstream, Undefined, e.res)
                   /\ UNCHANGED handlers
              ELSE /\ handlers' = [handlers EXCEPT ![r] =
                                     [pc |-> "fetch", req |-> req,
                                      clientIP |-> e.check.clientIP,
                                      rateLimitCheck |-> e.check.ret,
                                      fetches |-> e.fetches]]
                   /\ UNCHANGED sent
  /\ UNCHANGED <<clock, call>>

\* The upstream call of a waiting handler settles and the handler answers.
Resume(r, up) ==
  /\ sent = NothingSent
  /\ handlers[r].pc = "fetch"
  /\ \E e \in {HandlerResume(handlers[r], up)} :
       sent' = Answer(handlers[r].req, handlers[r].rateLimitCheck, e.fetches,
                      up, e.parsed, e.res)
  /\ handlers' = [handlers EXCEPT ![r] = Idle]
  /\ UNCHANGED <<clock, rateLimitStore, seen, call>>

\* The answer leaves: the server keeps nothing of it.
Deliver ==
  /\ sent # NothingSent
  /\ sent' = NothingSent
  /\ UNCHANGED <<clock, rateLimitStore, handlers, seen, call>>

\* The model takes a client's request while its counters are below max.
Budget(req, max) ==
  LET ip == getClientIP(req)
  IN  ip \in DOMAIN rateLimitStore =>
        /\ rateLimitStore[ip].count < max
        /\ rateLimitStore[ip].hourlyCount < max

(***************************************************************************)
(* Inputs.                                                                 *)
(***************************************************************************)
Request(method, contentLength, origin, body) ==
  [method |-> method, contentLength |-> contentLength,
   forwarded |-> origin.forwarded, realIP |-> origin.realIP,
   remoteAddress |-> origin.remoteAddress, body |-> body]

Forwarded(parts) == [t |-> "string", parts |-> parts]

\* Through a proxy that names the client; straight from the client; with
\* nothing that identifies the peer.
ViaProxy ==
  [forwarded |-> Forwarded(<<ClientA, Proxy>>), realIP |-> Undefined,
   remoteAddress |-> Str(Proxy)]
Direct ==
  [forwarded |-> Undefined, realIP |-> Undefined, remoteAddress |-> Str(ClientA)]
Anonymous ==
  [forwarded |-> Undefined, realIP |-> Undefined, remoteAddress |-> Undefined]

AtLimit == Chars(<<"1", "0", "2", "4", "0">>)
OverLimit == Chars(<<"1", "0", "2", "4", "1">>)

Body(message, mode) ==
  Obj(("message" :> message) @@ ("mode" :> mode))

ValidBody == Obj("message" :> StrOfLen(MAX_MESSAGE_LENGTH))
LongBody == Obj("message" :> StrOfLen(MAX_MESSAGE_LENGTH + 1))

\* Every combination of a right or wrong method, declared size and message,
\* and some more bodies.
Requests ==
  {Request(m, cl, ViaProxy, b) :
     m \in {"POST", "GET"}, cl \in {Undefined, OverLimit}, b \in {ValidBody, LongBody}}
  \cup {Request("POST", AtLimit, Direct, Body(StrOfLen(1), Str("Zen"))),
        Request("POST", Undefined, Direct, Body(StrOfLen(1), Str("NotAMode"))),
        Request("POST", Undefined, Direct, Undefined)}

\* Replies of the model: an object with values of several types, prose
\* around an object, prose only, braces the wrong way round.
Replies ==
  {<<LBrace, Member("emotional_read", Str("anger")), Comma,
     Member("humor", Num(7)), RBrace>>,
   <<Prose, LBrace, Member("closing", Str("Go Pack Go")), RBrace, Prose>>,
   <<Prose>>,
   <<RBrace, Prose, LBrace>>}

Upstreams ==
  {Rejected(<<"fetch failed">>),
   ErrorStatus(401, "invalid_api_key"),
   ErrorStatus(503, "overloaded"),
   Completion(Undefined, Undefined)}
  \cup {Completion(Text(raw), Undefined) : raw \in Replies}

\* The instants at which the clock is read: the start, within the first
\* minute, the end of the first minute window and just after it, and just
\* after the first hour.
Instants == {0, 1, MINUTE_MS, MINUTE_MS + 1, HOUR_MS + 1}

(***************************************************************************)
(* The endpoint serving requests.                                          *)
(***************************************************************************)
Advance == \E t \in Instants : Tick(t)

Receive ==
  \E r \in Slots :
     /\ handlers[r] = Idle
     /\ \E req \in Requests, random \in BOOLEAN, key \in BOOLEAN :
          Budget(req, MaxCalls) /\ Start(r, req, random, key)

Settle ==
  \E r \in Slots :
     /\ handlers[r].pc = "fetch"
     /\ \E up \in Upstreams : Resume(r, up)

Next == Advance \/ Receive \/ Settle \/ Deliver

Spec == Init /\ [][Next]_vars

(***************************************************************************)
(* The endpoint through one hourly window: one client whose requests come  *)
(* at instants one minute window apart, on a server without its            *)
(* credential, where every request the rate limiter allows is answered     *)
(* at once.                                                                *)
(***************************************************************************)
PlainRequest == Request("POST", Undefined, Direct, ValidBody)

HourInstants == {k * (MINUTE_MS + 1) : k \in 0..MaxWindows}

HourBudget(req) ==
  LET ip == getClientIP(req)
  IN  ip \in DOMAIN rateLimitStore =>
        /\ rateLimitStore[ip].count < MaxCalls
        /\ rateLimitStore[ip].hourlyCount < MaxHourCalls

AdvanceHour == \E t \in HourInstants : Tick(t)

ReceiveHour ==
  \E random \in BOOLEAN :
     HourBudget(PlainRequest) /\ Start("h1", PlainRequest, random, FALSE)

NextHour == AdvanceHour \/ ReceiveHour \/ Deliver

SpecHour == Init /\ [][NextHour]_vars

(***************************************************************************)
(* The endpoint answering valid requests, with every reply of the model    *)
(* of at most MaxRawLen tokens.                                            *)
(***************************************************************************)
Tokens ==
  {LBrace, RBrace, Comma, Prose,
   Member("emotional_read", Str("anger")),
   Member("validation", Null),
   Member("humor", Num(7)),
   Member("extra", Str("x")),
   Key("closing")}

RawTexts == UNION {[1..n -> Tokens] : n \in 0..MaxRawLen}

ReceiveReply ==
  Budget(PlainRequest, MaxReplyCalls) /\ Start("h1", PlainRequest, FALSE, TRUE)

SettleReply ==
  /\ handlers["h1"].pc = "fetch"
  /\ \/ \E raw \in RawTexts : Resume("h1", Completion(Text(raw), Undefined))
     \/ \E raw \in Replies : Resume("h1", Completion(Null, Text(raw)))

NextReply == ReceiveReply \/ SettleReply \/ Deliver

SpecReply == Init /\ [][NextReply]_vars

(***************************************************************************)
(* The input validator on its own: validateInput called with every message *)
(* and mode of the sets below, on a server that also takes requests.       *)
(***************************************************************************)
\* Values a JSON body can give to message: absent, null, numbers, booleans,
\* an object, and strings of the lengths around the two limits.
Messages ==
  {Undefined, Null, Num(0), Num(5), Bool(FALSE), Bool(TRUE), Obj(EmptyObject)}
  \cup {StrOfLen(n) : n \in {0, 1, 2, MAX_MESSAGE_LENGTH - 1, MAX_MESSAGE_LENGTH,
                             MAX_MESSAGE_LENGTH + 1, 2 * MAX_MESSAGE_LENGTH}}

\* Values it can give to mode: absent, null, each valid mode, strings that
\* are no mode (one empty, one differing in case), and values of other types.
Modes ==
  {Undefined, Null, Str("NotAMode"), Str(""), Str("zen"), Num(0), Num(1),
   Bool(FALSE), Obj(EmptyObject)}
  \cup {Str(m) : m \in SeqToSet(validModes)}

\* validateInput(message, mode) is called and returns.
ValidateCall(message, mode) ==
  /\ sent = NothingSent
  /\ call' = [fn |-> "validateInput", message |-> message, mode |-> mode,
              ret |-> validateInput(message, mode)]
  /\ UNCHANGED <<clock, rateLimitStore, handlers, sent, seen>>

CallValidate == \E message \in Messages, mode \in Modes : ValidateCall(message, mode)

ReceiveValidate ==
  \E key \in BOOLEAN :
     Budget(PlainRequest, MaxReplyCalls) /\ Start("h1", PlainRequest, FALSE, key)

SettleValidate ==
  /\ handlers["h1"].pc = "fetch"
  /\ Resume("h1", Completion(Undefined, Undefined))

NextValidate == CallValidate \/ ReceiveValidate \/ SettleValidate \/ Deliver

SpecValidate == Init /\ [][NextValidate]_vars


(***************************************************************************)
(* Properties of the endpoint.                                             *)
(***************************************************************************)
MessageOf(req) == IF req.body.t = "object" THEN Get(req.body, "message") ELSE Undefined
ModeOf(req) == IF req.body.t = "object" THEN Get(req.body, "mode") ELSE Undefined
ValidInput(req) == validateInput(MessageOf(req), ModeOf(req)).valid
Denied(a) == a.rateLimitCheck # NoCheck /\ ~a.rateLimitCheck.allowed
UpstreamFailed(a) ==
  a.up.kind \in {"none", "rejected"} \/ (a.up.kind = "response" /\ ~a.up.ok)

\* C1: from an identifier with no entry, the first 10 checks made before
\* the minute window of the first one resets are allowed and the 11th is
\* denied; the handler answers a denied check with 429.
C1_TenAllowedEleventhDenied ==
  /\ \A ip \in Clients :
       /\ seen[ip].calls \in 1..RATE_LIMIT_PER_MINUTE => seen[ip].ret.allowed
       /\ seen[ip].calls = RATE_LIMIT_PER_MINUTE + 1 => ~seen[ip].ret.allowed
  /\ sent # NothingSent /\ Denied(sent) => sent.status = 429

C1_Witness ==
  /\ sent # NothingSent
  /\ sent.status = 429
  /\ seen[ClientA].calls = RATE_LIMIT_PER_MINUTE + 1
  /\ seen[ClientA].at = seen[ClientA].upTo
  /\ ~seen[ClientA].ret.allowed

\* C3: a denial by the minute window carries a retryAfter that is a whole
\* number of seconds from 1 to 60, the ceiling of the time left until the
\* window's resetAt, at every instant of the window, resetAt included.
C3_RetryAfterPositive ==
  \A ip \in Clients :
    (seen[ip].checked /\ seen[ip].entry.count > RATE_LIMIT_PER_MINUTE) =>
      /\ ~seen[ip].ret.allowed
      /\ seen[ip].ret.retryAfter \in 1..60
      /\ 1000 * (seen[ip].ret.retryAfter - 1) < seen[ip].entry.resetAt - seen[ip].at
      /\ seen[ip].entry.resetAt - seen[ip].at <= 1000 * seen[ip].ret.retryAfter

\* C4: the answer is decided by the first failing check in the order
\* method, declared size, rate limit, input validation, upstream call.
C4_FirstFailingCheckDecides ==
  sent # NothingSent =>
    sent.status =
      IF sent.req.method # "POST" THEN 405
      ELSE IF TooLarge(sent.req.contentLength) THEN 413
      ELSE IF Denied(sent) THEN 429
      ELSE IF ~ValidInput(sent.req) THEN 400
      ELSE IF UpstreamFailed(sent) THEN 500
      ELSE 200

C4_Witness ==
  /\ sent # NothingSent
  /\ sent.status = 429
  /\ ~ValidInput(sent.req)

\* C5 as stated: the rate limiter is consulted only for requests whose
\* input is valid, and a request answered 400 was not counted by it.
C5_ValidatedBeforeCounted ==
  sent # NothingSent =>
    /\ sent.rateLimitCheck # NoCheck => ValidInput(sent.req)
    /\ sent.status = 400 => sent.rateLimitCheck = NoCheck

\* C5 as amended: the rate limiter runs before the input validator.  A
\* request answered 400 has been checked, and allowed, by the rate limiter
\* for its client in that same step; a request the rate limiter denies is
\* answered 429 whatever its input.
C5_CountedBeforeValidated ==
  /\ sent # NothingSent =>
       /\ sent.status = 400 =>
            /\ sent.rateLimitCheck = [allowed |-> TRUE]
            /\ seen[getClientIP(sent.req)].at = clock
            /\ seen[getClientIP(sent.req)].ret = sent.rateLimitCheck
            /\ seen[getClientIP(sent.req)].entry.count >= 1
       /\ Denied(sent) => sent.status = 429
  /\ \A r \in Slots :
       handlers[r].pc = "fetch" => handlers[r].rateLimitCheck = [allowed |-> TRUE]

C5_Witness ==
  /\ sent # NothingSent
  /\ sent.status = 400
  /\ sent.rateLimitCheck = [allowed |-> TRUE]
  /\ getClientIP(sent.req) \in DOMAIN rateLimitStore
  /\ rateLimitStore[getClientIP(sent.req)].count > 1

\* C6: a request makes at most one upstream call, and only after the
\* method, size, rate-limit and input checks have passed; an answer 405,
\* 413, 429 or 400 comes with no call, a failed extraction with one.
PassedAllChecks(req, rateLimitCheck) ==
  /\ req.method = "POST"
  /\ ~TooLarge(req.contentLength)
  /\ rateLimitCheck = [allowed |-> TRUE]
  /\ ValidInput(req)

C6_AtMostOneUpstreamCall ==
  /\ \A r \in Slots :
       handlers[r].pc = "fetch" =>
         /\ handlers[r].fetches = 1
         /\ PassedAllChecks(handlers[r].req, handlers[r].rateLimitCheck)
  /\ sent # NothingSent =>
       /\ sent.fetches \in {0, 1}
       /\ sent.status \in {405, 413, 429, 400} => sent.fetches = 0
       /\ sent.fetches = 1 => PassedAllChecks(sent.req, sent.rateLimitCheck)
       /\ sent.up.kind # "none" => sent.fetches = 1

C6_Witness ==
  /\ sent # NothingSent
  /\ sent.status = 200
  /\ sent.parsed = Null
  /\ sent.fetches = 1

\* C9: when the upstream answers with an error status, the 500 body sent
\* is the one any other upstream error status and body would have given.
C9_GenericUpstreamError ==
  (sent # NothingSent /\ sent.up.kind = "response" /\ ~sent.up.ok) =>
    /\ sent.status = 500
    /\ \A u \in Upstreams :
         (u.kind = "response" /\ ~u.ok) =>
           HandlerResume([fetches |-> sent.fetches], u).res.body = sent.body

\* C10: with requests of one client in flight together, no check is lost
\* (the store holds the entry each check computed) and at most 10 checks
\* are allowed in one minute window, at most 100 in one hourly window.
C10_AtomicCheckAndIncrement ==
  \A ip \in Clients :
    seen[ip].checked =>
      /\ seen[ip].kept
      /\ seen[ip].okInWin <= RATE_LIMIT_PER_MINUTE
      /\ seen[ip].okInHWin <= RATE_LIMIT_PER_HOUR

\* C2: when 100 checks have been made in one hourly window with the minute
\* count never above its limit, the 101st check in that window is denied
\* and its retryAfter is the ceiling, in seconds, of the time left until
\* the hourly window resets.
C2_HundredAndFirstDenied ==
  \A ip \in Clients :
    (seen[ip].hcalls = RATE_LIMIT_PER_HOUR + 1 /\ seen[ip].spaced) =>
      /\ ~seen[ip].ret.allowed
      /\ seen[ip].ret.retryAfter = Ceil(seen[ip].hupTo - seen[ip].at, 1000)
      /\ seen[ip].at = clock /\ sent # NothingSent => sent.status = 429

C2_Witness ==
  /\ seen[ClientA].hcalls = RATE_LIMIT_PER_HOUR + 1
  /\ seen[ClientA].spaced
  /\ ~seen[ClientA].ret.allowed
  /\ seen[ClientA].ret.retryAfter > 60
  /\ sent # NothingSent
  /\ sent.status = 429

\* C7: the body of a 200 answer has the seven keys and no other, each with
\* a string; when an object was extracted, a key's value is the object's
\* value if that is a string and the empty string otherwise.
C7_SevenStrings ==
  (sent # NothingSent /\ sent.status = 200) =>
    /\ DOMAIN sent.body = SeqToSet(requiredKeys)
    /\ \A k \in DOMAIN sent.body : sent.body[k].t = "string"
    /\ sent.parsed # Null =>
         \A k \in SeqToSet(requiredKeys) :
           sent.body[k] =
             IF k \in DOMAIN sent.parsed.o /\ sent.parsed.o[k].t = "string"
               THEN sent.parsed.o[k]
               ELSE Str("")

C7_Witness ==
  /\ sent # NothingSent
  /\ sent.status = 200
  /\ sent.parsed # Null
  /\ DOMAIN sent.parsed.o = {"emotional_read", "humor"}
  /\ sent.parsed.o["humor"] = Num(7)
  /\ sent.body["humor"] = Str("")
  /\ sent.body["emotional_read"] = Str("anger")

\* C8: when the upstream call succeeds and no object is extracted (no
\* opening brace followed by a closing one, or a span between them that is
\* no JSON), the answer is 200 with emotional_read "frustration" and the
\* six other fields empty.
RawOf(up) ==
  IF up.content.t = "string" THEN up.content.tokens
  ELSE IF up.text.t = "string" THEN up.text.tokens
  ELSE <<>>

NoBracePair(raw) ==
  ~\E i, j \in 1..Len(raw) : i < j /\ raw[i] = LBrace /\ raw[j] = RBrace

C8_FallbackOnExtractionFailure ==
  (sent # NothingSent /\ sent.up.kind = "response" /\ sent.up.ok) =>
    /\ NoBracePair(RawOf(sent.up)) => sent.parsed = Null
    /\ sent.parsed = Null =>
         /\ sent.status = 200
         /\ sent.body =
              [k \in SeqToSet(requiredKeys) |->
                 IF k = "emotional_read" THEN Str("frustration") ELSE Str("")]

C8_Witness ==
  /\ sent # NothingSent
  /\ sent.status = 200
  /\ sent.up.kind = "response"
  /\ ~NoBracePair(RawOf(sent.up))
  /\ sent.parsed = Null
  /\ sent.body["emotional_read"] = Str("frustration")

(***************************************************************************)
(* The rate limiter on its own: checkRateLimit called for two client       *)
(* identifiers, with and without the sweep, at instants around the ends of *)
(* a minute window and of an hourly window.                                *)
(***************************************************************************)
\* A minute window that starts at LateInHour is still open when the hourly
\* window that started at 0 has expired.
LateInHour == HOUR_MS - 10 * 1000

LimiterInstants == {0, MINUTE_MS, MINUTE_MS + 1, LateInHour, HOUR_MS, HOUR_MS + 1}

LimiterBudget(ip) ==
  ip \in DOMAIN rateLimitStore =>
    LET max == IF ip = ClientA THEN MaxCalls ELSE MaxOtherCalls
    IN  /\ rateLimitStore[ip].count < max
        /\ rateLimitStore[ip].hourlyCount < max

\* checkRateLimit(ip) is called and returns.  The call is recorded with the
\* store it found (before) and the last check made for ip before it (prev).
LimiterCall(ip, random) ==
  /\ sent = NothingSent
  /\ \E c \in {checkRateLimit(rateLimitStore, ip, clock, random)} :
       /\ rateLimitStore' = c.store
       /\ call' = [fn |-> "checkRateLimit", ip |-> ip, now |-> clock,
                   random |-> random, before |-> rateLimitStore,
                   prev |-> seen[ip], ret |-> c.ret, entry |-> c.entry]
       /\ seen' = [seen EXCEPT ![ip] =
                     Observe(@, clock,
                             [fresh |-> ip \notin DOMAIN rateLimitStore,
                              ret |-> c.ret, entry |-> c.entry,
                              kept |-> ip \in DOMAIN c.store /\ c.store[ip] = c.entry])]
  /\ UNCHANGED <<clock, handlers, sent>>

AdvanceLimiter == \E t \in LimiterInstants : Tick(t)

CallLimiter ==
  \E ip \in Clients :
     /\ LimiterBudget(ip)
     /\ \E random \in BOOLEAN : LimiterCall(ip, random)

NextLimiter == AdvanceLimiter \/ CallLimiter

SpecLimiter == Init /\ [][NextLimiter]_vars

(***************************************************************************)
(* The endpoint serving two clients, one named by its address and one with *)
(* nothing that identifies it, before and after the first hour.            *)
(***************************************************************************)
ClientRequests ==
  {Request(m, cl, origin, ValidBody) :
     m \in {"POST", "GET"}, cl \in {Undefined, OverLimit},
     origin \in {Direct, Anonymous}}
  \cup {Request("POST", Undefined, Direct, LongBody)}

ClientInstants == {0, 1, HOUR_MS + 1}

AdvanceClients == \E t \in ClientInstants : Tick(t)

ReceiveClients ==
  /\ handlers["h1"] = Idle
  /\ \E req \in ClientRequests :
       /\ LimiterBudget(getClientIP(req))
       /\ \E random \in BOOLEAN, key \in BOOLEAN : Start("h1", req, random, key)

SettleClients ==
  /\ handlers["h1"].pc = "fetch"
  /\ \E up \in {Completion(Undefined, Undefined), ErrorStatus(503, "overloaded")} :
       Resume("h1", up)

NextClients == AdvanceClients \/ ReceiveClients \/ SettleClients \/ Deliver

SpecClients == Init /\ [][NextClients]_vars

\* C11: validateInput returns valid exactly when message is a string of
\* length 1 to 500 and mode is undefined, null or one of the seven modes;
\* a call of it changes nothing of the rate-limit store, the handlers in
\* flight or the clock.
ValidMessage(message) ==
  message.t = "string" /\ message.length \in 1..500

ValidMode(mode) ==
  \/ mode \in {Undefined, Null}
  \/ mode \in {Str("Balanced"), Str("Zen"), Str("Dramatic"), Str("Angry"),
               Str("Copium"), Str("Analyst"), Str("Petty")}

C11_ValidExactlyWhen ==
  [][call' # call =>
       /\ call'.fn = "validateInput"
       /\ call'.ret.valid <=> (ValidMessage(call'.message) /\ ValidMode(call'.mode))
       /\ UNCHANGED <<clock, rateLimitStore, handlers, sent, seen>>]_vars

C11_Witness ==
  /\ call.fn = "validateInput"
  /\ call.message = StrOfLen(MAX_MESSAGE_LENGTH)
  /\ call.mode = Str("Petty")
  /\ call.ret.valid
  /\ handlers["h1"].pc = "fetch"
  /\ DOMAIN rateLimitStore # {}

\* C12: a denied check still counts.  When checkRateLimit returns
\* allowed = false the store holds the entry with the counter that caused
\* the denial grown by one, and as long as the window of a denial has not
\* reset every further check of that client is denied too, with the
\* counter one higher each time.
C12_DeniedStillCounts ==
  call.fn = "checkRateLimit" =>
    LET ip == call.ip
        prev == call.prev
        minuteOpen == /\ prev.entry.count > RATE_LIMIT_PER_MINUTE
                      /\ call.now <= prev.entry.resetAt
        hourOpen == /\ prev.entry.hourlyCount > RATE_LIMIT_PER_HOUR
                    /\ call.now <= prev.entry.hourlyResetAt
    IN  /\ ~call.ret.allowed =>
             /\ ip \in DOMAIN rateLimitStore
             /\ rateLimitStore[ip] = call.entry
             /\ call.entry.count > RATE_LIMIT_PER_MINUTE =>
                  call.entry.count = call.before[ip].count + 1
             /\ call.entry.hourlyCount > RATE_LIMIT_PER_HOUR =>
                  call.entry.hourlyCount = call.before[ip].hourlyCount + 1
        /\ (prev.checked /\ ~prev.ret.allowed /\ (minuteOpen \/ hourOpen)) =>
             /\ ~call.ret.allowed
             /\ minuteOpen => call.entry.count = prev.entry.count + 1
             /\ hourOpen => call.entry.hourlyCount = prev.entry.hourlyCount + 1

\* C13: when a check finds the minute count above 10 and the hourly count
\* above 100, it is denied with the retryAfter of the minute window, the
\* ceiling in seconds of the time left until resetAt.
C13_MinuteWindowReportedFirst ==
  \A ip \in Clients :
    (/\ seen[ip].checked
     /\ seen[ip].entry.count > RATE_LIMIT_PER_MINUTE
     /\ seen[ip].entry.hourlyCount > RATE_LIMIT_PER_HOUR) =>
      /\ ~seen[ip].ret.allowed
      /\ seen[ip].ret.retryAfter = Ceil(seen[ip].entry.resetAt - seen[ip].at, 1000)
      /\ (seen[ip].at = clock /\ sent # NothingSent) =>
           /\ sent.status = 429
           /\ sent.body.retryAfter = seen[ip].ret.retryAfter

C13_Witness ==
  /\ seen[ClientA].entry.count > RATE_LIMIT_PER_MINUTE
  /\ seen[ClientA].entry.hourlyCount > RATE_LIMIT_PER_HOUR
  /\ seen[ClientA].ret.retryAfter = 60
  /\ Ceil(seen[ClientA].entry.hourlyResetAt - seen[ClientA].at, 1000) > 60
  /\ sent # NothingSent
  /\ sent.status = 429

\* C14: a call for an identifier that has an entry handles each window on
\* its own: a window that has elapsed (its reset time is before now) gets
\* counter 1 and reset time now plus its length, any other window gets its
\* counter grown by one and keeps its reset time; the entry the store then
\* holds for the identifier is that one.  A call for an identifier without
\* entry is allowed and starts both windows at now.  In every store, which
\* maps an identifier to one entry, both counters are at least 1.
C14_WindowsStepIndependently ==
  /\ \A ip \in DOMAIN rateLimitStore :
       /\ rateLimitStore[ip].count >= 1
       /\ rateLimitStore[ip].hourlyCount >= 1
  /\ DOMAIN rateLimitStore \subseteq Clients
  /\ call.fn = "checkRateLimit" =>
       IF call.ip \in DOMAIN call.before
         THEN LET old == call.before[call.ip]
                  new == call.entry
              IN  /\ IF old.resetAt < call.now
                        THEN new.count = 1 /\ new.resetAt = call.now + 60000
                        ELSE new.count = old.count + 1 /\ new.resetAt = old.resetAt
                  /\ IF old.hourlyResetAt < call.now
                        THEN /\ new.hourlyCount = 1
                             /\ new.hourlyResetAt = call.now + 3600000
                        ELSE /\ new.hourlyCount = old.hourlyCount + 1
                             /\ new.hourlyResetAt = old.hourlyResetAt
                  /\ call.ip \in DOMAIN rateLimitStore =>
                       rateLimitStore[call.ip] = new
         ELSE /\ call.ret.allowed
              /\ rateLimitStore[call.ip] =
                   RateLimitEntry(1, call.now + 60000, 1, call.now + 3600000)

\* The hourly window has elapsed and the minute window has not.
C14_Witness ==
  /\ call.fn = "checkRateLimit"
  /\ call.ip \in DOMAIN call.before
  /\ call.before[call.ip].hourlyResetAt < call.now
  /\ call.before[call.ip].resetAt >= call.now
  /\ call.ip \in DOMAIN rateLimitStore
  /\ rateLimitStore[call.ip].hourlyCount = 1
  /\ rateLimitStore[call.ip].count = call.before[call.ip].count + 1
  /\ rateLimitStore[call.ip].count > 2

\* C15: in a call for an identifier that has an entry, the sweep deletes
\* the entries whose hourlyResetAt is before now and no other, leaves
\* every entry but the caller's as it was, and the call returns the same
\* allowed and retryAfter with the sweep as without it.
Expired(store, now) == {k \in DOMAIN store : store[k].hourlyResetAt < now}

C15_SweepIsMaintenanceOnly ==
  (call.fn = "checkRateLimit" /\ call.ip \in DOMAIN call.before) =>
    LET swept == checkRateLimit(call.before, call.ip, call.now, TRUE)
        unswept == checkRateLimit(call.before, call.ip, call.now, FALSE)
    IN  /\ swept.ret = unswept.ret
        /\ call.ret = swept.ret
        /\ DOMAIN unswept.store = DOMAIN call.before
        /\ DOMAIN swept.store = DOMAIN call.before \ Expired(call.before, call.now)
        /\ \A k \in DOMAIN swept.store : swept.store[k] = unswept.store[k]
        /\ \A k \in DOMAIN swept.store \ {call.ip} : swept.store[k] = call.before[k]
        /\ rateLimitStore = IF call.random THEN swept.store ELSE unswept.store

\* The sweep fires in a denied call and deletes the other client's entry.
C15_Witness ==
  /\ call.fn = "checkRateLimit"
  /\ call.random
  /\ call.ip = ClientA
  /\ ~call.ret.allowed
  /\ DOMAIN call.before = Clients
  /\ DOMAIN rateLimitStore = {ClientA}
  /\ rateLimitStore[ClientA].count = call.before[ClientA].count + 1

\* C16: when a checkRateLimit(ip) call has returned, the store holds for ip
\* the entry the call computed, and the call counts in the next check for
\* ip: a check made before a window of the previous check has reset finds
\* that window's counter and adds one to it.
C16_CallIsRecorded ==
  call.fn = "checkRateLimit" =>
    /\ call.ip \in DOMAIN rateLimitStore
    /\ rateLimitStore[call.ip] = call.entry
    /\ (call.prev.checked /\ call.now <= call.prev.entry.resetAt) =>
         call.entry.count = call.prev.entry.count + 1
    /\ (call.prev.checked /\ call.now <= call.prev.entry.hourlyResetAt) =>
         call.entry.hourlyCount = call.prev.entry.hourlyCount + 1

\* C17: a request answered 405 or 413 leaves the rate-limit store as it
\* was.  In any step, a client's entry appears or changes only when a
\* request of that client reaches the rate-limit check in that step, and
\* disappears only when a request reaches the check and the entry's hourly
\* window has expired.
AnsweredAtOnce ==
  sent = NothingSent /\ sent' # NothingSent /\ sent'.up = NoUpstream

ReachesCheck(ip) ==
  \/ /\ AnsweredAtOnce
     /\ sent'.status \in {429, 400, 500}
     /\ getClientIP(sent'.req) = ip
  \/ \E r \in Slots :
       handlers[r] = Idle /\ handlers'[r] # Idle /\ handlers'[r].clientIP = ip

C17_OnlyCheckedRequestsCount ==
  [][/\ (AnsweredAtOnce /\ sent'.status \in {405, 413}) =>
          rateLimitStore' = rateLimitStore
     /\ \A ip \in Clients :
          \/ /\ (ip \in DOMAIN rateLimitStore) = (ip \in DOMAIN rateLimitStore')
             /\ ip \in DOMAIN rateLimitStore =>
                  rateLimitStore'[ip] = rateLimitStore[ip]
          \/ ReachesCheck(ip)
          \/ /\ ip \in DOMAIN rateLimitStore
             /\ ip \notin DOMAIN rateLimitStore'
             /\ rateLimitStore[ip].hourlyResetAt < clock
             /\ \E other \in Clients : ReachesCheck(other)]_vars

\* A request too large, from a client without entry, is answered after the
\* other client's hourly window has expired: no entry is made, none swept.
C17_Witness ==
  /\ sent # NothingSent
  /\ sent.status = 413
  /\ sent.req.method = "POST"
  /\ getClientIP(sent.req) = "unknown"
  /\ DOMAIN rateLimitStore = {ClientA}
  /\ rateLimitStore[ClientA].hourlyResetAt < clock
  /\ ~seen["unknown"].checked

====
